---- MODULE Spec2Model ----
(***************************************************************************)
(* NyxVaulta: the bookmark record store behind its row-level-security      *)
(* policies, the two mutation endpoints (POST /api/bookmarks and           *)
(* PATCH /api/bookmarks/[id]), the useBookmarks client hook with its        *)
(* realtime subscription, and the authentication middleware.               *)
(***************************************************************************)
EXTENDS Integers, Sequences, FiniteSets, TLC

\* ---------------------------------------------------------------- bounds
\* Successful writes (inserts, updates, deletes) to the record store in one run.
MaxWrites == 2
\* Calls of fetchBookmarks one hook has in flight at a time.
MaxInflight == 2
\* Change notifications waiting for one hook.
MaxNotes == 1
\* cookie writes the auth client makes during one middleware call
MaxCookieOps == 2
\* redirects a browser follows in one navigation
MaxHops == 2
\* bookmarks the dashboard page is given
MaxViewRows == 2

\* ------------------------------------------------------------ identities
Users == {"u1", "u2"}
\* supabase.auth.getUser() resolved to { user: null }
NoUser == "anon"
Sessions == Users \cup {NoUser}
\* The caller whose session cannot be resolved: createClient() or getUser()
\* throws (no credentials configured, identity provider unreachable).
SessionThrows == "throws"
\* What resolving the session of a request to an endpoint can come to.
Callers == Sessions \cup {SessionThrows}

\* ------------------------------------------------- JSON / SQL value model
\* A nullable value is the empty set (null / NULL) or a singleton.
Null == {}
Some(v) == {v}

Titles == {"A", "B"}
Urls == {"x"}
EmptyStr == ""

WhitelistKeys == {"title", "url", "description", "is_favorite", "tags", "folder_id"}
ServerKeys == {"id", "user_id", "visit_count", "created_at"}
Keys == WhitelistKeys \cup ServerKeys

\* The request object of one call: what request.json() yields.  `json` is
\* FALSE when parsing throws.  `keys` are the keys present in the object; a
\* field outside `keys` holds a filler that no handler reads.
EmptyBody ==
  [json |-> TRUE, keys |-> {}, title |-> Null, url |-> Null, description |-> Null,
   is_favorite |-> FALSE, tags |-> Null, folder_id |-> Null,
   user_id |-> "u2", visit_count |-> 0, id |-> 0, created_at |-> 0]

InvalidBody == [EmptyBody EXCEPT !.json = FALSE]

With(b, k, v) == [b EXCEPT !.keys = @ \cup {k}, ![k] = v]

\* title / url combinations: each absent, empty or a value.
RequiredParts ==
  { [t |-> t, u |-> u] :
      t \in {Null} \cup {Some(s) : s \in Titles \cup {EmptyStr}},
      u \in {Null} \cup {Some(s) : s \in Urls \cup {EmptyStr}} }

RequiredBody(p) ==
  LET b1 == IF p.t = Null THEN EmptyBody
            ELSE With(EmptyBody, "title", p.t)
  IN  IF p.u = Null THEN b1 ELSE With(b1, "url", p.u)

\* One further key: an optional column or a server-owned column a caller
\* tries to inject.
Extras ==
  { <<"description", Some("d")>>, <<"description", Null>>,
    <<"tags", Some(<<"t">>)>>, <<"folder_id", Some("f")>> }

ExtraBool == { <<"is_favorite", TRUE>>, <<"is_favorite", FALSE>> }
ExtraUser == { <<"user_id", "u2">> }
ExtraNat == { <<"visit_count", 7>>, <<"id", 9>>, <<"created_at", 9>> }

ValidCreate == RequiredBody([t |-> Some("A"), u |-> Some("x")])

WithExtras(b) ==
  { With(b, e[1], e[2]) : e \in Extras } \cup
  { With(b, e[1], e[2]) : e \in ExtraBool } \cup
  { With(b, e[1], e[2]) : e \in ExtraUser } \cup
  { With(b, e[1], e[2]) : e \in ExtraNat }

Bodies ==
  { RequiredBody(p) : p \in RequiredParts } \cup
  WithExtras(EmptyBody) \cup WithExtras(ValidCreate) \cup {InvalidBody}

\* ------------------------------------------------------------------ state
VARIABLES
  rls,      \* row level security enabled on bookmarks with its four policies
  store,    \* the bookmarks table: a set of rows
  nextId,   \* next primary key / creation instant the database hands out
  writes,   \* successful writes so far
  last,     \* the request the server handled last and its response
  hooks,    \* the useBookmarks instance of each open dashboard
  gate,     \* the middleware call in progress, if any
  view      \* the state of DashboardPage and the list it shows

vars == <<rls, store, nextId, writes, last, hooks, gate, view>>

\* The dashboards whose hook is followed step by step.  Hooks share nothing
\* but the store, so every other open browser is seen through its requests
\* alone (OtherCreate, OtherToggle, OtherDelete).
Hooks == {"h1"}
\* The pseudo hook of a browser that is not followed.
NoHook == "other"

Idle == [op |-> "none", sess |-> NoUser, id |-> 0, body |-> EmptyBody,
         status |-> 0, error |-> "", data |-> {}]

\* Every id a row can have, and so at least one id that no row has.
Ids == 1..MaxWrites

\* ---------------------------------------------------------- record store
\* Mutant: the policies are not applied.
PolicyRows_Off(u) == store

\* USING (auth.uid() = user_id): the rows a statement run as u may touch.
PolicyRows(u) ==
  IF rls THEN {r \in store : r.user_id = u} ELSE store

\* WITH CHECK (auth.uid() = user_id) on INSERT.
InsertCheck(u, row) == rls => row.user_id = u

\* Mutant: only undefined and null count as missing.
Truthy_EmptyPasses(b, k) == k \in b.keys /\ b[k] # Null

\* JS truthiness of a destructured body field: undefined, null and "" are falsy.
Truthy(b, k) == k \in b.keys /\ b[k] # Null /\ b[k] # Some(EmptyStr)

\* A field of the insert payload: undefined is dropped by JSON serialisation
\* and the column takes its default NULL.
Field(b, k) == IF k \in b.keys THEN b[k] ELSE Null

Unwrap(opt) == CHOOSE v \in opt : TRUE

\* Mutant: the body is spread into the insert payload after the defaults.
InsertRow_Spread(u, b) ==
  [id |-> nextId,
   user_id |-> IF "user_id" \in b.keys THEN b.user_id ELSE u,
   title |-> Unwrap(b.title), url |-> Unwrap(b.url),
   description |-> Field(b, "description"),
   is_favorite |-> IF "is_favorite" \in b.keys THEN b.is_favorite ELSE FALSE,
   tags |-> Field(b, "tags"), folder_id |-> Field(b, "folder_id"),
   visit_count |-> IF "visit_count" \in b.keys THEN b.visit_count ELSE 0,
   created_at |-> nextId]

\* The row POST hands to insert(), completed with the column defaults.
InsertRow(u, b) ==
  [id |-> nextId, user_id |-> u,
   title |-> Unwrap(b.title), url |-> Unwrap(b.url),
   description |-> Field(b, "description"),
   is_favorite |-> FALSE,
   tags |-> Field(b, "tags"), folder_id |-> Field(b, "folder_id"),
   visit_count |-> 0, created_at |-> nextId]

\* updateData of PATCH: only the whitelisted keys present in the body.
UpdateKeys(b) == b.keys \cap WhitelistKeys

\* NOT NULL on title and url.
UpdateViolatesNotNull(b) ==
  \E k \in UpdateKeys(b) \cap {"title", "url"} : b[k] = Null

\* Mutant: an optional column missing from the body is written as NULL.
ApplyUpdate_Clears(r, b) ==
  [r EXCEPT
     !.title = IF "title" \in UpdateKeys(b) THEN Unwrap(b.title) ELSE @,
     !.url = IF "url" \in UpdateKeys(b) THEN Unwrap(b.url) ELSE @,
     !.description = IF "description" \in UpdateKeys(b) THEN b.description ELSE Null,
     !.is_favorite = IF "is_favorite" \in UpdateKeys(b) THEN b.is_favorite ELSE @,
     !.tags = IF "tags" \in UpdateKeys(b) THEN b.tags ELSE Null,
     !.folder_id = IF "folder_id" \in UpdateKeys(b) THEN b.folder_id ELSE @]

\* Mutant: the whole body is handed to update(), owner included.
ApplyUpdate_Body(r, b) ==
  [r EXCEPT
     !.title = IF "title" \in UpdateKeys(b) THEN Unwrap(b.title) ELSE @,
     !.url = IF "url" \in UpdateKeys(b) THEN Unwrap(b.url) ELSE @,
     !.description = IF "description" \in UpdateKeys(b) THEN b.description ELSE @,
     !.is_favorite = IF "is_favorite" \in UpdateKeys(b) THEN b.is_favorite ELSE @,
     !.tags = IF "tags" \in UpdateKeys(b) THEN b.tags ELSE @,
     !.folder_id = IF "folder_id" \in UpdateKeys(b) THEN b.folder_id ELSE @,
     !.user_id = IF "user_id" \in b.keys THEN b.user_id ELSE @,
     !.created_at = IF "created_at" \in b.keys THEN b.created_at ELSE @]

\* .update(updateData): the columns named in updateData take its values.
ApplyUpdate(r, b) ==
  [r EXCEPT
     !.title = IF "title" \in UpdateKeys(b) THEN Unwrap(b.title) ELSE @,
     !.url = IF "url" \in UpdateKeys(b) THEN Unwrap(b.url) ELSE @,
     !.description = IF "description" \in UpdateKeys(b) THEN b.description ELSE @,
     !.is_favorite = IF "is_favorite" \in UpdateKeys(b) THEN b.is_favorite ELSE @,
     !.tags = IF "tags" \in UpdateKeys(b) THEN b.tags ELSE @,
     !.folder_id = IF "folder_id" \in UpdateKeys(b) THEN b.folder_id ELSE @]

\* Mutant: the update is filtered by id alone, with no policy in the way.
UpdateTargets_IdOnly(u, id) == {r \in store : r.id = id}

\* Mutant: the update is filtered by id, the owner being left to the policy.
UpdateTargets_PolicyOnly(u, id) == {r \in PolicyRows(u) : r.id = id}

\* .eq('id', id).eq('user_id', user.id), under the UPDATE policy.
UpdateTargets(u, id) ==
  {r \in PolicyRows(u) : r.id = id /\ r.user_id = u}

\* Mutant: the delete is filtered by owner as the update is.
DeleteTargets_Owner(u, id) ==
  {r \in PolicyRows(u) : r.id = id /\ r.user_id = u}

\* delete().eq('id', id), under the DELETE policy.
DeleteTargets(u, id) == {r \in PolicyRows(u) : r.id = id}

Reply(op, sess, id, b, status, error, data) ==
  [op |-> op, sess |-> sess, id |-> id, body |-> b,
   status |-> status, error |-> error, data |-> data]

\* ------------------------------------------------------------- endpoints
\* Mutant: the required fields are checked before the session.
PostGate_ValidateFirst(sess, b) ==
  IF b.json /\ (~Truthy(b, "title") \/ ~Truthy(b, "url")) THEN 400
  ELSE IF sess = NoUser THEN 401
  ELSE IF ~b.json THEN 500
  ELSE 0

\* The checks POST runs before it reaches the store, in the order of the
\* code: session, body parsing, required fields.  0 means "go on".
PostGate(sess, b) ==
  IF sess = SessionThrows THEN 500
  ELSE IF sess = NoUser THEN 401
  ELSE IF ~b.json THEN 500
  ELSE IF ~Truthy(b, "title") \/ ~Truthy(b, "url") THEN 400
  ELSE 0

\* Mutant: a body that does not parse is answered as a bad request.
PatchGate_BadRequest(sess, b) ==
  IF sess = SessionThrows THEN 500
  ELSE IF sess = NoUser THEN 401
  ELSE IF ~b.json THEN 400
  ELSE 0

\* The checks PATCH runs before it reaches the store: session, body parsing.
PatchGate(sess, b) ==
  IF sess = SessionThrows THEN 500
  ELSE IF sess = NoUser THEN 401
  ELSE IF ~b.json THEN 500
  ELSE 0

GateError(status) ==
  IF status = 401 THEN "Unauthorized"
  ELSE IF status = 400 THEN "Title and URL are required"
  ELSE "thrown"

\* What POST answers and what it leaves in the store, dbOk telling whether
\* the insert statement went through.
PostResult(sess, b, dbOk) ==
  IF PostGate(sess, b) # 0
  THEN [reply |-> Reply("POST", sess, 0, b, PostGate(sess, b),
                        GateError(PostGate(sess, b)), {}),
        store |-> store, nextId |-> nextId]
  ELSE IF dbOk /\ InsertCheck(sess, InsertRow(sess, b))
  THEN [reply |-> Reply("POST", sess, 0, b, 200, "", {InsertRow(sess, b)}),
        store |-> store \cup {InsertRow(sess, b)}, nextId |-> nextId + 1]
  ELSE [reply |-> Reply("POST", sess, 0, b, 500, "thrown", {}),
        store |-> store, nextId |-> nextId]

\* What PATCH answers and what it leaves in the store.  An empty updateData
\* changes and returns no row, and .single() turns "no row" into an error.
PatchResult(sess, id, b, dbOk) ==
  LET hit == UpdateTargets(sess, id)
      ok == /\ dbOk
            /\ UpdateKeys(b) # {}
            /\ ~UpdateViolatesNotNull(b)
            /\ hit # {}
  IN  IF PatchGate(sess, b) # 0
      THEN [reply |-> Reply("PATCH", sess, id, b, PatchGate(sess, b),
                            GateError(PatchGate(sess, b)), {}),
            store |-> store, nextId |-> nextId]
      ELSE IF ok
      THEN [reply |-> Reply("PATCH", sess, id, b, 200, "",
                            {ApplyUpdate(r, b) : r \in hit}),
            store |-> {IF r \in hit THEN ApplyUpdate(r, b) ELSE r : r \in store},
            nextId |-> nextId]
      ELSE [reply |-> Reply("PATCH", sess, id, b, 500, "thrown", {}),
            store |-> store, nextId |-> nextId]

\* The store takes the outcome of a handler; a successful write uses up one
\* unit of the write budget.
Commit(res) ==
  /\ res.reply.status = 200 => writes < MaxWrites
  /\ store' = res.store
  /\ nextId' = res.nextId
  /\ writes' = IF res.reply.status = 200 THEN writes + 1 ELSE writes

POST(sess, b) ==
  /\ last = Idle
  /\ \E dbOk \in BOOLEAN :
       /\ Commit(PostResult(sess, b, dbOk))
       /\ last' = PostResult(sess, b, dbOk).reply
  /\ UNCHANGED <<view, gate, rls, hooks>>

PATCH(sess, id, b) ==
  /\ last = Idle
  /\ \E dbOk \in BOOLEAN :
       /\ Commit(PatchResult(sess, id, b, dbOk))
       /\ last' = PatchResult(sess, id, b, dbOk).reply
  /\ UNCHANGED <<view, gate, rls, hooks>>

\* The query of fetchBookmarks, answered by the store for the session sess:
\* select('*') under the SELECT policy.
SELECT(sess) ==
  /\ last = Idle
  /\ \E dbOk \in BOOLEAN :
       last' = IF dbOk
               THEN Reply("SELECT", sess, 0, EmptyBody, 200, "", PolicyRows(sess))
               ELSE Reply("SELECT", sess, 0, EmptyBody, 500, "thrown", {})
  /\ UNCHANGED <<view, gate, rls, store, nextId, writes, hooks>>

\* deleteBookmark(id) issued by a browser with the session sess: the store
\* deletes the rows the policy lets the statement see; deleting nothing is
\* not an error.
DELETE(sess, id) ==
  /\ last = Idle
  /\ \E dbOk \in BOOLEAN :
       LET gone == IF dbOk THEN DeleteTargets(sess, id) ELSE {}
       IN  /\ gone # {} => writes < MaxWrites
           /\ store' = store \ gone
           /\ writes' = IF gone # {} THEN writes + 1 ELSE writes
           /\ last' = IF dbOk
                      THEN Reply("DELETE", sess, id, EmptyBody, 200, "", gone)
                      ELSE Reply("DELETE", sess, id, EmptyBody, 500, "thrown", {})
  /\ UNCHANGED <<view, gate, rls, nextId, hooks>>

\* The response has been sent; the server waits for the next request.
Respond ==
  /\ last # Idle
  /\ last' = Idle
  /\ UNCHANGED <<view, gate, rls, store, nextId, writes, hooks>>

\* ---------------------------------------------------- client hook (useBookmarks)
\* .order('created_at', { ascending: false })
RECURSIVE OrderDesc(_)
OrderDesc(S) ==
  IF S = {} THEN <<>>
  ELSE LET top == CHOOSE r \in S : \A q \in S : q.created_at <= r.created_at
       IN  <<top>> \o OrderDesc(S \ {top})

\* The rows the select of fetchBookmarks returns to a browser signed in as u.
SelectAll(u) == OrderDesc(PolicyRows(u))

\* A hook that is not mounted.  subs counts the channels this instance has
\* open; closed and closedAt record that it was deactivated and how many
\* writes the store had taken by then.  forms is the form state of the edit
\* modal of each bookmark item on the page, by bookmark id.
HookOff ==
  [mounted |-> FALSE, joined |-> FALSE, user |-> NoUser, loading |-> TRUE,
   bookmarks |-> <<>>, forms |-> <<>>, notes |-> 0, fetches |-> <<>>, subs |-> 0,
   closed |-> FALSE, closedAt |-> 0,
   seen |-> 0, best |-> 0, owed |-> 0, failed |-> 0]

\* A call of fetchBookmarks whose query is on its way; iv is the number of
\* writes the store had taken when it was started, first tells the call the
\* effect made on mount from the later ones.
NewFetch ==
  [phase |-> "sent", data |-> <<>>, ver |-> 0, iv |-> writes, first |-> FALSE]

Max(a, b) == IF a >= b THEN a ELSE b

RemoveAt(q, i) == [j \in 1..(Len(q) - 1) |-> IF j < i THEN q[j] ELSE q[j + 1]]

\* useEffect on mount: fetchBookmarks() and channel(...).subscribe().
Mount(h, u) ==
  /\ ~hooks[h].mounted
  /\ hooks' = [hooks EXCEPT ![h] =
       [HookOff EXCEPT !.mounted = TRUE, !.user = u,
                       !.subs = hooks[h].subs + 1,
                       !.fetches = <<[NewFetch EXCEPT !.first = TRUE]>>]]
  /\ UNCHANGED <<view, gate, rls, store, nextId, writes, last>>

\* The realtime channel reports SUBSCRIBED: changes are delivered from now on.
Join(h) ==
  /\ hooks[h].mounted /\ ~hooks[h].joined
  /\ hooks' = [hooks EXCEPT ![h].joined = TRUE]
  /\ UNCHANGED <<view, gate, rls, store, nextId, writes, last>>

\* Mutant: the effect returns no cleanup, the channel stays open.
Unmount_NoCleanup(h) ==
  /\ hooks[h].mounted
  /\ hooks' = [hooks EXCEPT ![h] =
       [HookOff EXCEPT !.closed = TRUE, !.closedAt = writes,
                       !.user = hooks[h].user, !.joined = hooks[h].joined,
                       !.subs = hooks[h].subs, !.notes = hooks[h].notes]]
  /\ UNCHANGED <<view, gate, rls, store, nextId, writes, last>>

\* The cleanup of the effect: removeChannel closes the channel and drops
\* what it had not delivered.  The component state is gone and a fetch
\* still in flight has nothing left to update.
Unmount(h) ==
  /\ hooks[h].mounted
  /\ hooks' = [hooks EXCEPT ![h] =
       [HookOff EXCEPT !.closed = TRUE, !.closedAt = writes,
                       !.subs = hooks[h].subs - 1]]
  /\ UNCHANGED <<view, gate, rls, store, nextId, writes, last>>

\* Mutant: a new call of fetchBookmarks aborts the ones in flight.
Deliver_Cancel(h) ==
  /\ hooks[h].notes > 0
  /\ Len(hooks[h].fetches) < MaxInflight
  /\ hooks' = [hooks EXCEPT ![h].notes = @ - 1,
                            ![h].fetches = <<NewFetch>>]
  /\ UNCHANGED <<view, gate, rls, store, nextId, writes, last>>

\* The postgres_changes callback runs: () => fetchBookmarks().
Deliver(h) ==
  /\ hooks[h].notes > 0
  /\ Len(hooks[h].fetches) < MaxInflight
  /\ hooks' = [hooks EXCEPT ![h].notes = @ - 1,
                            ![h].fetches = Append(@, NewFetch)]
  /\ UNCHANGED <<view, gate, rls, store, nextId, writes, last>>

\* The store answers the select of one fetch, or the request fails.
Query(h, i) ==
  /\ hooks[h].mounted
  /\ i \in 1..Len(hooks[h].fetches)
  /\ hooks[h].fetches[i].phase = "sent"
  /\ \E dbOk \in BOOLEAN :
       hooks' = [hooks EXCEPT ![h].fetches[i] =
         IF dbOk
         THEN [@ EXCEPT !.phase = "ok", !.data = SelectAll(hooks[h].user),
                        !.ver = writes]
         ELSE [@ EXCEPT !.phase = "err"]]
  /\ UNCHANGED <<view, gate, rls, store, nextId, writes, last>>

\* Mutant: setLoading(false) sits in the try block, after setBookmarks.
SettledLoading_Try(was, f) == IF f.phase = "ok" THEN FALSE ELSE was

\* finally { setLoading(false) }
SettledLoading(was, f) == FALSE

\* Mutant: the catch block empties the list.
SettledBookmarks_Clear(was, f) == IF f.phase = "ok" THEN f.data ELSE <<>>

\* if (error) throw error; setBookmarks(data || []): the list is replaced
\* on success and not touched on error.
SettledBookmarks(was, f) == IF f.phase = "ok" THEN f.data ELSE was

\* useState(bookmark.title), useState(bookmark.url),
\* useState(bookmark.description || '')
FormOf(r) ==
  [title |-> r.title, url |-> r.url,
   description |-> IF r.description = Null THEN EmptyStr
                   ELSE Unwrap(r.description)]

ListIds(list) == {list[i].id : i \in DOMAIN list}

RowOf(list, id) == list[CHOOSE i \in DOMAIN list : list[i].id = id]

\* Mutant: the modal takes its fields from the bookmark at every render.
Captured_Reinit(forms, list) ==
  [id \in ListIds(list) |-> FormOf(RowOf(list, id))]

\* The form states after the list was rendered: items are keyed by bookmark
\* id, so an item that stays keeps its state, an item that appears runs its
\* useState initialisers and an item that left is gone.
Captured(forms, list) ==
  [id \in ListIds(list) |->
     IF id \in DOMAIN forms THEN forms[id] ELSE FormOf(RowOf(list, id))]

\* The awaited query of one fetchBookmarks call settles: setBookmarks(data)
\* on success, a toast on error, setLoading(false) in both cases.
Settle(h, i) ==
  /\ hooks[h].mounted
  /\ i \in 1..Len(hooks[h].fetches)
  /\ hooks[h].fetches[i].phase # "sent"
  /\ LET f == hooks[h].fetches[i]
     IN  hooks' = [hooks EXCEPT
           ![h].fetches = RemoveAt(@, i),
           ![h].loading = SettledLoading(@, f),
           ![h].bookmarks = SettledBookmarks(@, f),
           ![h].forms = Captured(@, SettledBookmarks(hooks[h].bookmarks, f)),
           ![h].seen = IF f.phase = "ok" THEN f.ver ELSE @,
           ![h].best = IF f.phase = "ok" THEN Max(@, f.ver) ELSE @,
           ![h].failed = IF f.phase = "err" THEN Max(@, f.iv) ELSE @]
  /\ UNCHANGED <<view, gate, rls, store, nextId, writes, last>>

\* Mutant: the channel listens to INSERT events only.
Listeners_InsertOnly(ev, owner) ==
  {h \in Hooks : /\ hooks[h].joined
                 /\ ev = "INSERT"
                 /\ rls => hooks[h].user = owner}

\* The hooks whose channel receives the change of a row owned by owner:
\* event '*' on table bookmarks, for every row the subscriber may select.
Listeners(ev, owner) ==
  {h \in Hooks : /\ hooks[h].joined
                 /\ rls => hooks[h].user = owner}

\* Mutant: a delete also removes the row from the local list at once.
AfterWrite_Optimistic(h, changed, ev, owner, refetch) ==
  [g \in Hooks |->
     LET told == changed /\ g \in Listeners(ev, owner)
         owes == changed /\ hooks[g].joined /\ (rls => hooks[g].user = owner)
         g1 == IF told THEN [hooks[g] EXCEPT !.notes = @ + 1] ELSE hooks[g]
         g2 == IF owes THEN [g1 EXCEPT !.owed = writes + 1] ELSE g1
         g3 == IF g = h /\ changed /\ ev = "DELETE"
               THEN [g2 EXCEPT !.bookmarks = SelectSeq(@, LAMBDA r : r \in store')]
               ELSE g2
     IN  IF g = h /\ refetch
         THEN [g3 EXCEPT !.fetches = Append(@, NewFetch)]
         ELSE g3]

\* The hooks after a browser operation of hook h: when the store changed,
\* every listener has one more notification pending; when refetch is set,
\* h has started fetchBookmarks.
\* owed records, for a subscribed hook whose rows the write changed, the
\* number of that write; it is bookkeeping for the properties only.
AfterWrite(h, changed, ev, owner, refetch) ==
  [g \in Hooks |->
     LET told == changed /\ g \in Listeners(ev, owner)
         owes == changed /\ hooks[g].joined /\ (rls => hooks[g].user = owner)
         g1 == IF told THEN [hooks[g] EXCEPT !.notes = @ + 1] ELSE hooks[g]
         g2 == IF owes THEN [g1 EXCEPT !.owed = writes + 1] ELSE g1
     IN  IF g = h /\ refetch
         THEN [g2 EXCEPT !.fetches = Append(@, NewFetch)]
         ELSE g2]

NotesFree(ev, owner) ==
  \A g \in Listeners(ev, owner) : hooks[g].notes < MaxNotes

\* BookmarkForm.handleSubmit: POST {title, url}; onSuccess is refetch.
HookCreate(h, t) ==
  /\ hooks[h].mounted
  /\ \E dbOk \in BOOLEAN :
       LET b == With(With(EmptyBody, "title", Some(t)), "url", Some("x"))
           res == PostResult(hooks[h].user, b, dbOk)
           done == res.reply.status = 200
       IN  /\ Commit(res)
           /\ done => /\ NotesFree("INSERT", hooks[h].user)
                      /\ Len(hooks[h].fetches) < MaxInflight
           /\ hooks' = AfterWrite(h, done, "INSERT", hooks[h].user, done)
  /\ UNCHANGED <<view, gate, rls, last>>

\* Mutant: the toggle negates what the store holds.
ToggleBody_Stored(id, isFavorite) ==
  With(EmptyBody, "is_favorite",
       IF \E r \in store : r.id = id
       THEN ~(CHOOSE r \in store : r.id = id).is_favorite
       ELSE ~isFavorite)

\* toggleFavorite(id, isFavorite): update(id, { is_favorite: !isFavorite })
ToggleBody(id, isFavorite) == With(EmptyBody, "is_favorite", ~isFavorite)

\* BookmarkItem.handleToggleFavorite on the k-th bookmark shown:
\* bookmarkApi.toggleFavorite(id, is_favorite), then onUpdate (refetch).
HookToggle(h, k) ==
  /\ hooks[h].mounted /\ ~hooks[h].loading
  /\ k \in 1..Len(hooks[h].bookmarks)
  /\ \E dbOk \in BOOLEAN :
       LET shown == hooks[h].bookmarks[k]
           b == ToggleBody(shown.id, shown.is_favorite)
           res == PatchResult(hooks[h].user, shown.id, b, dbOk)
           done == res.reply.status = 200
       IN  /\ Commit(res)
           /\ done => /\ NotesFree("UPDATE", hooks[h].user)
                      /\ Len(hooks[h].fetches) < MaxInflight
           /\ hooks' = AfterWrite(h, done, "UPDATE", hooks[h].user, done)
  /\ UNCHANGED <<view, gate, rls, last>>

\* What the user can type into the description of the edit modal.
Descriptions == {"d", EmptyStr}

\* { title, url, description } of EditModal.handleSubmit
EditBody(form) ==
  With(With(With(EmptyBody, "title", Some(form.title)),
            "url", Some(form.url)),
       "description", Some(form.description))

\* EditModal.handleSubmit on the k-th bookmark shown, after the user typed
\* d into the description and left title and url alone:
\* bookmarkApi.update(id, { title, url, description }), then onSuccess
\* (refetch).  What was typed stays in the form state.
HookEdit(h, k, d) ==
  /\ hooks[h].mounted /\ ~hooks[h].loading
  /\ k \in 1..Len(hooks[h].bookmarks)
  /\ hooks[h].bookmarks[k].id \in DOMAIN hooks[h].forms
  /\ d # hooks[h].forms[hooks[h].bookmarks[k].id].description
  /\ \E dbOk \in BOOLEAN :
       LET shown == hooks[h].bookmarks[k]
           form == [hooks[h].forms[shown.id] EXCEPT !.description = d]
           res == PatchResult(hooks[h].user, shown.id, EditBody(form), dbOk)
           done == res.reply.status = 200
       IN  /\ Commit(res)
           /\ done => /\ NotesFree("UPDATE", hooks[h].user)
                      /\ Len(hooks[h].fetches) < MaxInflight
           /\ hooks' = [AfterWrite(h, done, "UPDATE", hooks[h].user, done)
                          EXCEPT ![h].forms[shown.id] = form]
  /\ UNCHANGED <<view, gate, rls, last>>

\* deleteBookmark(id) on the k-th bookmark shown: delete().eq('id', id)
\* under the DELETE policy; nothing is changed locally.
HookDelete(h, k) ==
  /\ hooks[h].mounted /\ ~hooks[h].loading
  /\ k \in 1..Len(hooks[h].bookmarks)
  /\ \E dbOk \in BOOLEAN :
       LET shown == hooks[h].bookmarks[k]
           gone == IF dbOk
                   THEN {r \in PolicyRows(hooks[h].user) : r.id = shown.id}
                   ELSE {}
       IN  /\ gone # {} => writes < MaxWrites /\ NotesFree("DELETE", hooks[h].user)
           /\ store' = store \ gone
           /\ writes' = IF gone # {} THEN writes + 1 ELSE writes
           /\ hooks' = AfterWrite(h, gone # {}, "DELETE", hooks[h].user, FALSE)
  /\ UNCHANGED <<view, gate, rls, nextId, last>>

\* The same three operations from a browser that is not followed, signed in
\* as u: its form, its star button (which sends the negation of whatever that
\* browser shows, so either value) and its delete button.
OtherCreate(u, t) ==
  /\ \E dbOk \in BOOLEAN :
       LET b == With(With(EmptyBody, "title", Some(t)), "url", Some("x"))
           res == PostResult(u, b, dbOk)
           done == res.reply.status = 200
       IN  /\ Commit(res)
           /\ done => NotesFree("INSERT", u)
           /\ hooks' = AfterWrite(NoHook, done, "INSERT", u, FALSE)
  /\ UNCHANGED <<view, gate, rls, last>>

OtherToggle(u, id, v) ==
  /\ \E dbOk \in BOOLEAN :
       LET b == With(EmptyBody, "is_favorite", v)
           res == PatchResult(u, id, b, dbOk)
           done == res.reply.status = 200
       IN  /\ Commit(res)
           /\ done => NotesFree("UPDATE", u)
           /\ hooks' = AfterWrite(NoHook, done, "UPDATE", u, FALSE)
  /\ UNCHANGED <<view, gate, rls, last>>

\* The edit modal of a browser that is not followed, which shows the record
\* as it is stored: the user gives it the title t and saves.
OtherEdit(u, id, t) ==
  /\ \E r \in PolicyRows(u) :
       /\ r.id = id
       /\ t # r.title
       /\ \E dbOk \in BOOLEAN :
            LET form == [FormOf(r) EXCEPT !.title = t]
                res == PatchResult(u, id, EditBody(form), dbOk)
                done == res.reply.status = 200
            IN  /\ Commit(res)
                /\ done => NotesFree("UPDATE", u)
                /\ hooks' = AfterWrite(NoHook, done, "UPDATE", u, FALSE)
  /\ UNCHANGED <<view, gate, rls, last>>

OtherDelete(u, id) ==
  /\ \E dbOk \in BOOLEAN :
       LET gone == IF dbOk THEN {r \in PolicyRows(u) : r.id = id} ELSE {}
       IN  /\ gone # {} => writes < MaxWrites /\ NotesFree("DELETE", u)
           /\ store' = store \ gone
           /\ writes' = IF gone # {} THEN writes + 1 ELSE writes
           /\ hooks' = AfterWrite(NoHook, gone # {}, "DELETE", u, FALSE)
  /\ UNCHANGED <<view, gate, rls, nextId, last>>


\* ------------------------------------------------- middleware (the gate)
\* A pathname is the sequence of its pieces: "/dashboard/x" is
\* <<"/", "dashboard", "/", "x">> and "/dashboardx" is <<"/", "dashboard", "x">>.
DashboardPath == <<"/", "dashboard">>
LoginPath == <<"/", "login">>
Pathnames ==
  { DashboardPath, DashboardPath \o <<"/", "x">>, DashboardPath \o <<"x">>,
    LoginPath, LoginPath \o <<"/", "x">>, <<"/">>, <<"/", "x">> }

\* String.prototype.startsWith
StartsWith(p, prefix) ==
  Len(p) >= Len(prefix) /\ SubSeq(p, 1, Len(prefix)) = prefix

\* config.matcher: '/dashboard/:path*' and '/login'
Matcher(p) ==
  \/ p = DashboardPath
  \/ StartsWith(p, DashboardPath \o <<"/">>)
  \/ p = LoginPath

CookieNames == {"sb-token.0", "sb-token.1"}
CookieValues == {"t1", "t2"}
Removed == ""
NoCookies == [n \in {} |-> Removed]

\* The cookies a browser sends: none, or a session token.
BrowserJars == {NoCookies} \cup [{"sb-token.0"} -> CookieValues]

\* cookies.set({name, value, ...options}) on a jar
JarSet(jar, name, value) ==
  [n \in DOMAIN jar \cup {name} |-> IF n = name THEN value ELSE jar[n]]

\* cookies.get(name)?.value
JarGet(jar, name) == IF name \in DOMAIN jar THEN Some(jar[name]) ELSE Null

\* The code parameter of a request to the OAuth callback: absent, one whose
\* exchange fails, or one that stands for a user's sign-in.  Direct marks a
\* request that did not come through the callback.
NoCode == "none"
BadCode == "bad"
Codes == {NoCode, BadCode} \cup Users
Direct == "direct"

GateIdle ==
  [pc |-> "idle", path |-> <<>>, sess |-> NoUser, env |-> TRUE, idp |-> TRUE,
   code |-> Direct,
   browser |-> NoCookies, hops |-> 0,
   user |-> NoUser, request |-> NoCookies,
   response |-> NoCookies, written |-> NoCookies, ops |-> 0,
   kind |-> "none", location |-> <<>>]

\* Lines 19-73 for one request: response = NextResponse.next(...) and
\* createServerClient(url, key, {cookies}) over the request's cookies.
\* env tells whether NEXT_PUBLIC_SUPABASE_URL and NEXT_PUBLIC_SUPABASE_ANON_KEY
\* are set: without them createServerClient throws and, middleware having no
\* try/catch, the request ends with that error.  user is what getUser will
\* resolve to: the session's user, or null when the identity provider cannot
\* be reached (idp false) or the request carries no session.
Entered(p, sess, jar, env, idp, hops) ==
  LET g == [GateIdle EXCEPT !.path = p, !.sess = sess, !.env = env,
                            !.idp = idp, !.browser = jar, !.hops = hops,
                            !.request = jar]
  IN  IF env
      THEN [g EXCEPT !.pc = "getUser",
                     !.user = IF idp THEN sess ELSE NoUser]
      ELSE [g EXCEPT !.pc = "done", !.kind = "error"]

\* A matched request enters middleware.
GateEnter(p, sess, jar, env, idp) ==
  /\ gate.pc = "idle"
  /\ Matcher(p)
  /\ gate' = Entered(p, sess, jar, env, idp, 0)
  /\ UNCHANGED <<view, rls, store, nextId, writes, last, hooks>>

\* Mutant: set and remove write the response only.
CookieWrite_ResponseOnly(name, value) ==
  [gate EXCEPT !.response = JarSet(NoCookies, name, value),
               !.written = JarSet(@, name, value),
               !.ops = @ + 1]

\* The body shared by the set and remove methods: write the request's
\* cookie, replace response by a new NextResponse.next(...), write the
\* cookie on the new response.  written keeps what was written during the
\* call, for the properties only.
CookieWrite(name, value) ==
  [gate EXCEPT !.request = JarSet(@, name, value),
               !.response = JarSet(NoCookies, name, value),
               !.written = JarSet(@, name, value),
               !.ops = @ + 1]

\* cookies.set(name, value, options), called by the client inside getUser.
CookieSet(name, value) ==
  /\ gate.pc = "getUser"
  /\ gate.ops < MaxCookieOps
  /\ gate' = CookieWrite(name, value)
  /\ UNCHANGED <<view, rls, store, nextId, writes, last, hooks>>

\* cookies.remove(name, options)
CookieRemove(name) ==
  /\ gate.pc = "getUser"
  /\ gate.ops < MaxCookieOps
  /\ gate' = CookieWrite(name, Removed)
  /\ UNCHANGED <<view, rls, store, nextId, writes, last, hooks>>

\* Mutant: the dashboard test compares the whole pathname.
Protected_Exact(p) == p = DashboardPath

\* request.nextUrl.pathname.startsWith('/dashboard')
Protected(p) == StartsWith(p, DashboardPath)

\* Mutant: everyone on /login is sent to the dashboard.
OnLogin_Anyone(user, p) == p = LoginPath

\* user && request.nextUrl.pathname === '/login'
OnLogin(user, p) == user # NoUser /\ p = LoginPath

\* Mutant: the redirect is built on the response the cookie methods made.
Redirect_Carry(g, location) ==
  [g EXCEPT !.pc = "done", !.kind = "redirect", !.location = location]

\* return NextResponse.redirect(new URL(location, request.url)): a new
\* response, which is not the one the cookie methods wrote to.
Redirect(g, location) ==
  [g EXCEPT !.pc = "done", !.kind = "redirect", !.location = location,
            !.response = NoCookies]

\* getUser has returned; the two tests and the final return.
GateDecide ==
  /\ gate.pc = "getUser"
  /\ gate' =
       IF gate.user = NoUser /\ Protected(gate.path)
       THEN Redirect(gate, LoginPath)
       ELSE IF OnLogin(gate.user, gate.path)
       THEN Redirect(gate, DashboardPath)
       ELSE [gate EXCEPT !.pc = "done", !.kind = "next"]
  /\ UNCHANGED <<view, rls, store, nextId, writes, last, hooks>>

\* The browser's cookies after it took the Set-Cookie headers of a response.
Merge(jar, response) ==
  [n \in DOMAIN jar \cup DOMAIN response |->
     IF n \in DOMAIN response THEN response[n] ELSE jar[n]]

\* The browser follows a redirect: it requests the Location with the
\* session it has, and the request runs through middleware again.
GateFollow ==
  /\ gate.pc = "done"
  /\ gate.kind = "redirect"
  /\ gate.hops < MaxHops
  /\ Matcher(gate.location)
  /\ gate' = Entered(gate.location, gate.sess,
                     Merge(gate.browser, gate.response),
                     gate.env, gate.idp, gate.hops + 1)
  /\ UNCHANGED <<view, rls, store, nextId, writes, last, hooks>>

\* --------------------------------------------- OAuth callback (route.ts)
CallbackPath == <<"/", "auth", "/", "callback">>

\* The session after await supabase.auth.exchangeCodeForSession(code): the
\* user of the code when the exchange succeeds, what the browser had when
\* it fails (its error is returned and not looked at) or was not tried.
Exchanged(code, sess, idp) ==
  IF code \in Users /\ idp THEN code ELSE sess

\* Mutant: a callback that signed nobody in sends the browser to /login.
CallbackLocation_ErrorPage(code) ==
  IF code \in Users THEN DashboardPath ELSE LoginPath

\* return NextResponse.redirect(new URL('/dashboard', request.url))
CallbackLocation(code) == DashboardPath

\* GET /auth/callback, which the matcher keeps out of middleware.  With a
\* code the handler builds the client, which throws when the credentials
\* are not set (there is no try/catch), and exchanges the code; in every
\* other case it returns the redirect.
Callback(code, sess, jar, env, idp) ==
  /\ gate.pc = "idle"
  /\ ~Matcher(CallbackPath)
  /\ gate' =
       LET g == [GateIdle EXCEPT !.pc = "callback", !.path = CallbackPath,
                                 !.code = code, !.env = env, !.idp = idp,
                                 !.browser = jar, !.request = jar,
                                 !.sess = sess]
       IN  IF code # NoCode /\ ~env
           THEN [g EXCEPT !.kind = "error"]
           ELSE [g EXCEPT !.kind = "redirect",
                          !.sess = Exchanged(code, sess, idp),
                          !.location = CallbackLocation(code)]
  /\ UNCHANGED <<view, rls, store, nextId, writes, last, hooks>>

\* The browser takes the answer of the callback: it follows the redirect
\* with the session it has now, through middleware if the matcher says so,
\* or shows the error.
CallbackFollow ==
  /\ gate.pc = "callback"
  /\ gate' =
       IF gate.kind = "redirect" /\ Matcher(gate.location)
       THEN [Entered(gate.location, gate.sess, gate.browser, gate.env,
                     gate.idp, 0) EXCEPT !.code = gate.code]
       ELSE GateIdle
  /\ UNCHANGED <<view, rls, store, nextId, writes, last, hooks>>

\* The response has left; the next request can come.
GateLeave ==
  /\ gate.pc = "done"
  /\ gate' = GateIdle
  /\ UNCHANGED <<view, rls, store, nextId, writes, last, hooks>>

\* ------------------------------------------------ dashboard page (view)
\* Text is a sequence of characters, so that case folding, substring search
\* and comparison are computed.  A timestamp is the millisecond it falls in
\* and the microseconds within it, as timestamptz stores and prints it.
Chars == {"a", "A", "b", "B", "x"}

Stamp(ms, us) == [ms |-> ms, us |-> us]

ViewRow(id, title, url, description, tags, fav, at) ==
  [id |-> id, title |-> title, url |-> url, description |-> description,
   tags |-> tags, is_favorite |-> fav, created_at |-> at]

\* Bookmarks as the hook hands them to the page.
ViewRows ==
  { ViewRow(1, <<"A", "b">>, <<"x">>, Null, Null, FALSE, Stamp(1, 0)),
    ViewRow(2, <<"b">>, <<"x">>, Null, Null, TRUE, Stamp(1, 1)),
    ViewRow(3, <<"B">>, <<"a", "x">>, Null, Null, FALSE, Stamp(2, 0)),
    ViewRow(4, <<"x">>, <<"x">>, Some(<<"A">>), Null, TRUE, Stamp(2, 1)),
    ViewRow(5, <<"x">>, <<"x">>, Null, Some(<< <<"x">>, <<"a", "B">> >>),
            FALSE, Stamp(3, 0)),
    ViewRow(6, <<"a">>, <<"x">>, Some(<<>>), Some(<<>>), FALSE, Stamp(3, 0)) }

\* a is not later than b, to the microsecond.
NotAfter(a, b) == a.ms < b.ms \/ (a.ms = b.ms /\ a.us <= b.us)

\* What fetchBookmarks can put in `bookmarks`: distinct rows in the order of
\* .order('created_at', { ascending: false }).
ViewLists ==
  { l \in UNION { [1..n -> ViewRows] : n \in 0..MaxViewRows } :
      \A i, j \in 1..Len(l) :
        i < j => l[i] # l[j] /\ NotAfter(l[j].created_at, l[i].created_at) }

Queries == { <<>>, <<"a">>, <<"A", "b">>, <<"B">>, <<"b", "x">> }

SORT_OPTIONS == {"newest", "oldest", "title", "title-desc"}

\* Mutant: the texts are compared as typed.
ToLowerCase_AsTyped(t) == t

\* String.prototype.toLowerCase
ToLowerCase(t) ==
  [i \in 1..Len(t) |-> IF t[i] = "A" THEN "a" ELSE IF t[i] = "B" THEN "b" ELSE t[i]]

\* String.prototype.includes
Includes(t, q) ==
  \E k \in 0..(Len(t) - Len(q)) : \A i \in 1..Len(q) : t[k + i] = q[i]

\* The predicate of the search filter, query being the lowercased search text.
Matches(b, query) ==
  \/ Includes(ToLowerCase(b.title), query)
  \/ Includes(ToLowerCase(b.url), query)
  \/ b.description # Null /\ Includes(ToLowerCase(Unwrap(b.description)), query)
  \/ /\ b.tags # Null
     /\ \E i \in 1..Len(Unwrap(b.tags)) :
          Includes(ToLowerCase(Unwrap(b.tags)[i]), query)

\* Array.prototype.filter
RECURSIVE Filter(_, _)
Filter(l, keep) ==
  IF l = <<>> THEN <<>>
  ELSE IF Head(l) \in keep THEN <<Head(l)>> \o Filter(Tail(l), keep)
  ELSE Filter(Tail(l), keep)

Range(l) == {l[i] : i \in 1..Len(l)}

\* new Date(created_at).getTime(): a Date holds whole milliseconds.
GetTime(at) == at.ms

\* Collation of the characters: the letter first, lower case before upper
\* case when the letters are the same.
Letter(c) == IF c \in {"a", "A"} THEN 1 ELSE IF c \in {"b", "B"} THEN 2 ELSE 3
Case(c) == IF c \in {"A", "B"} THEN 1 ELSE 0

\* -1, 0 or 1 as the sequence of numbers s sorts before, with or after t.
RECURSIVE LexCmp(_, _)
LexCmp(s, t) ==
  IF s = <<>> /\ t = <<>> THEN 0
  ELSE IF s = <<>> THEN -1
  ELSE IF t = <<>> THEN 1
  ELSE IF Head(s) < Head(t) THEN -1
  ELSE IF Head(s) > Head(t) THEN 1
  ELSE LexCmp(Tail(s), Tail(t))

\* String.prototype.localeCompare
LocaleCompare(s, t) ==
  LET letters == LexCmp([i \in 1..Len(s) |-> Letter(s[i])],
                        [i \in 1..Len(t) |-> Letter(t[i])])
  IN  IF letters # 0 THEN letters
      ELSE LexCmp([i \in 1..Len(s) |-> Case(s[i])],
                  [i \in 1..Len(t) |-> Case(t[i])])

\* The comparator the switch on sortBy hands to sort().
Compare(a, b, sortBy) ==
  CASE sortBy = "newest" -> GetTime(b.created_at) - GetTime(a.created_at)
    [] sortBy = "oldest" -> GetTime(a.created_at) - GetTime(b.created_at)
    [] sortBy = "title" -> LocaleCompare(a.title, b.title)
    [] sortBy = "title-desc" -> LocaleCompare(b.title, a.title)

\* Array.prototype.sort, which is stable: x goes behind the last element
\* that does not sort after it.
InsertStable(l, x, sortBy) ==
  LET at == {i \in 1..Len(l) : Compare(l[i], x, sortBy) <= 0}
      k == IF at = {} THEN 0 ELSE CHOOSE i \in at : \A j \in at : j <= i
  IN  SubSeq(l, 1, k) \o <<x>> \o SubSeq(l, k + 1, Len(l))

RECURSIVE Sort(_, _)
Sort(l, sortBy) ==
  IF l = <<>> THEN <<>>
  ELSE InsertStable(Sort(SubSeq(l, 1, Len(l) - 1), sortBy), l[Len(l)], sortBy)

\* The rows the two filters keep.
Filtered(bookmarks, searchQuery, showFavoritesOnly) ==
  LET found == IF searchQuery # <<>>
               THEN Filter(bookmarks,
                           {b \in Range(bookmarks) : Matches(b, ToLowerCase(searchQuery))})
               ELSE bookmarks
  IN  IF showFavoritesOnly
      THEN Filter(found, {b \in Range(found) : b.is_favorite})
      ELSE found

\* filteredAndSortedBookmarks
FilteredAndSorted(bookmarks, searchQuery, sortBy, showFavoritesOnly) ==
  Sort(Filtered(bookmarks, searchQuery, showFavoritesOnly), sortBy)

\* The page before the hook has data: useState(''), useState(NEWEST),
\* useState(false).
ViewInit ==
  [bookmarks |-> <<>>, searchQuery |-> <<>>, sortBy |-> "newest",
   showFavoritesOnly |-> FALSE, shown |-> <<>>]

\* Mutant: filtered is sorted itself; with no filter on, it is the hook's array.
AfterMemo_InPlace(v, sorted) ==
  IF v.searchQuery = <<>> /\ ~v.showFavoritesOnly THEN sorted ELSE v.bookmarks

\* `bookmarks` after the memo ran: sort() works on the copy [...filtered]
\* and filter() returns a new array, so the hook's array is as it was.
AfterMemo(v, sorted) == v.bookmarks

\* A render: the memo is recomputed from the state.
Rendered(v) ==
  LET sorted == FilteredAndSorted(v.bookmarks, v.searchQuery, v.sortBy,
                                  v.showFavoritesOnly)
  IN  [v EXCEPT !.shown = sorted, !.bookmarks = AfterMemo(v, sorted)]

\* The memo callback runs again on the same state (React may call it more
\* than once).
Recompute ==
  /\ view' = Rendered(view)
  /\ UNCHANGED <<rls, store, nextId, writes, last, hooks, gate>>

\* The hook hands the page another list.
ViewBookmarks(l) ==
  /\ l # view.bookmarks
  /\ view' = Rendered([view EXCEPT !.bookmarks = l])
  /\ UNCHANGED <<rls, store, nextId, writes, last, hooks, gate>>

SetSearchQuery(q) ==
  /\ q # view.searchQuery
  /\ view' = Rendered([view EXCEPT !.searchQuery = q])
  /\ UNCHANGED <<rls, store, nextId, writes, last, hooks, gate>>

SetSortBy(sortBy) ==
  /\ sortBy # view.sortBy
  /\ view' = Rendered([view EXCEPT !.sortBy = sortBy])
  /\ UNCHANGED <<rls, store, nextId, writes, last, hooks, gate>>

\* onToggleFavorites
ToggleFavorites ==
  /\ view' = Rendered([view EXCEPT !.showFavoritesOnly = ~@])
  /\ UNCHANGED <<rls, store, nextId, writes, last, hooks, gate>>

\* ------------------------------------------------------- specifications
Init ==
  /\ rls = TRUE
  /\ store = {}
  /\ nextId = 1
  /\ writes = 0
  /\ last = Idle
  /\ hooks = [h \in Hooks |-> HookOff]
  /\ gate = GateIdle
  /\ view = ViewInit

\* The endpoints under arbitrary requests.
Next ==
  \/ \E sess \in Callers, b \in Bodies : POST(sess, b)
  \/ \E sess \in Callers, id \in Ids, b \in Bodies : PATCH(sess, id, b)
  \/ \E sess \in Sessions : SELECT(sess)
  \/ \E sess \in Sessions, id \in Ids : DELETE(sess, id)
  \/ Respond

Spec == Init /\ [][Next]_vars

\* The database as set up by the scripts (policies in force) or with row
\* level security off: every row is visible and writable to every caller.
InitPolicy ==
  /\ rls \in BOOLEAN
  /\ store = {}
  /\ nextId = 1
  /\ writes = 0
  /\ last = Idle
  /\ hooks = [h \in Hooks |-> HookOff]
  /\ gate = GateIdle
  /\ view = ViewInit

\* The endpoints under arbitrary requests, with or without the policies.
SpecPolicy == InitPolicy /\ [][Next]_vars

\* Browsers running the dashboard against the store.
NextHook ==
  \/ \E h \in Hooks, u \in Users : Mount(h, u)
  \/ \E h \in Hooks : Join(h)
  \/ \E h \in Hooks : Unmount(h)
  \/ \E h \in Hooks : Deliver(h)
  \/ \E h \in Hooks, i \in 1..MaxInflight : Query(h, i)
  \/ \E h \in Hooks, i \in 1..MaxInflight : Settle(h, i)
  \/ \E h \in Hooks, t \in Titles : HookCreate(h, t)
  \/ \E h \in Hooks, k \in Ids : HookToggle(h, k)
  \/ \E h \in Hooks, k \in Ids : HookDelete(h, k)
  \/ \E u \in Users, t \in Titles : OtherCreate(u, t)
  \/ \E u \in Users, id \in Ids, v \in BOOLEAN : OtherToggle(u, id, v)
  \/ \E u \in Users, id \in Ids : OtherDelete(u, id)

SpecHook == Init /\ [][NextHook]_vars

\* A bookmark created earlier by u1 through the form.
SeedRow ==
  [id |-> 1, user_id |-> "u1", title |-> "A", url |-> "x",
   description |-> Null, is_favorite |-> FALSE, tags |-> Null,
   folder_id |-> Null, visit_count |-> 0, created_at |-> 1]

\* The dashboards opened on a store that already holds a bookmark.
InitSeeded ==
  /\ rls = TRUE
  /\ store = {SeedRow}
  /\ nextId = 2
  /\ writes = 0
  /\ last = Idle
  /\ hooks = [h \in Hooks |-> HookOff]
  /\ gate = GateIdle
  /\ view = ViewInit

\* Browsers starring and editing the bookmarks there are.
NextEdit ==
  \/ \E h \in Hooks, u \in Users : Mount(h, u)
  \/ \E h \in Hooks : Join(h)
  \/ \E h \in Hooks : Unmount(h)
  \/ \E h \in Hooks : Deliver(h)
  \/ \E h \in Hooks, i \in 1..MaxInflight : Query(h, i)
  \/ \E h \in Hooks, i \in 1..MaxInflight : Settle(h, i)
  \/ \E h \in Hooks, k \in Ids : HookToggle(h, k)
  \/ \E u \in Users, id \in Ids, v \in BOOLEAN : OtherToggle(u, id, v)
  \/ \E h \in Hooks, k \in Ids, d \in Descriptions : HookEdit(h, k, d)
  \/ \E u \in Users, id \in Ids, t \in Titles : OtherEdit(u, id, t)

SpecSeeded == InitSeeded /\ [][NextEdit]_vars

\* The event loop runs every callback that is ready, the channel delivers
\* what it has, and every request is answered.
FairSpecHook ==
  /\ SpecHook
  /\ \A h \in Hooks :
       /\ WF_vars(Deliver(h))
       /\ WF_vars(\E i \in 1..MaxInflight : Query(h, i))
       /\ WF_vars(\E i \in 1..MaxInflight : Settle(h, i))

\* The middleware under arbitrary matched requests and cookie writes.
NextGate ==
  \/ \E p \in Pathnames, sess \in Sessions, jar \in BrowserJars,
        env \in BOOLEAN, idp \in BOOLEAN :
       GateEnter(p, sess, jar, env, idp)
  \/ \E n \in CookieNames, v \in CookieValues : CookieSet(n, v)
  \/ \E n \in CookieNames : CookieRemove(n)
  \/ GateDecide
  \/ GateFollow
  \/ GateLeave
  \/ \E code \in Codes, sess \in Sessions, jar \in BrowserJars,
        env \in BOOLEAN, idp \in BOOLEAN :
       Callback(code, sess, jar, env, idp)
  \/ CallbackFollow

SpecGate == Init /\ [][NextGate]_vars

\* The dashboard page under changes of its list and of its controls.
NextView ==
  \/ \E l \in ViewLists : ViewBookmarks(l)
  \/ \E q \in Queries : SetSearchQuery(q)
  \/ \E sortBy \in SORT_OPTIONS : SetSortBy(sortBy)
  \/ ToggleFavorites
  \/ Recompute

SpecView == Init /\ [][NextView]_vars

\* ================================================================ claims
RowKeys == WhitelistKeys \cup ServerKeys

\* A required field of a parsed body that is missing or empty.
MissingOrEmpty(b, k) == k \notin b.keys \/ b[k] = Null \/ b[k] = Some(EmptyStr)

\* The status of the catch block of both handlers.
GenericFailure == 500

\* C1. Ownership isolation: whatever an identity A reads (the hook's select),
\* creates or updates, the rows it gets back are all owned by A, and every
\* row owned by someone else is still in the store, unchanged, afterwards.
C1_OwnershipIsolation ==
  [][ /\ \A r \in last'.data : r.user_id = last'.sess
      /\ \A r \in store : r.user_id # last'.sess => r \in store' ]_vars

\* A read as one identity returned rows while another identity owns rows too.
C1_Witness ==
  /\ last.op = "SELECT"
  /\ last.data # {}
  /\ \E r \in store : r.user_id # last.sess

\* C2. Create defaults: the record a successful create stores and returns
\* has is_favorite = false, visit_count = 0 and the caller's session identity
\* as owner, whatever the body carries.
C2_CreateDefaults ==
  (last.op = "POST" /\ last.status = 200) =>
    /\ Cardinality(last.data) = 1
    /\ \A r \in last.data :
         /\ r \in store
         /\ r.is_favorite = FALSE
         /\ r.visit_count = 0
         /\ r.user_id = last.sess

\* A create succeeded whose body named another identity as user_id.
C2_Witness ==
  /\ last.op = "POST"
  /\ last.status = 200
  /\ "user_id" \in last.body.keys
  /\ last.body.user_id # last.sess

\* C3. Partial-update sparsity: an update leaves every whitelisted field whose
\* key is absent from the body as it was, in every row; a body with only
\* title changes no field other than title.
C3_UpdateSparsity ==
  [][ last'.op = "PATCH" =>
        /\ Cardinality(store') = Cardinality(store)
        /\ \A r \in store : \E r2 \in store' :
             /\ r2.id = r.id
             /\ \A k \in WhitelistKeys \ last'.body.keys : r2[k] = r[k]
             /\ last'.body.keys = {"title"} =>
                  \A k \in RowKeys \ {"title"} : r2[k] = r[k] ]_vars

\* An update with only title succeeded on a row whose optional field is set.
C3_Witness ==
  /\ last.op = "PATCH"
  /\ last.status = 200
  /\ last.body.keys = {"title"}
  /\ \E r \in last.data : r.title = "B" /\ r.description # Null

\* C7. Create validation: an authenticated create whose title or url is
\* missing or empty is answered 400 and inserts no row.
C7_CreateValidation ==
  [][ ( /\ last'.op = "POST"
        /\ last'.sess \in Users
        /\ last'.body.json
        /\ MissingOrEmpty(last'.body, "title") \/ MissingOrEmpty(last'.body, "url") )
      => (last'.status = 400 /\ store' = store) ]_vars

\* Create with {title: "", url: "x"} by a signed-in caller was answered 400.
C7_Witness ==
  /\ last.op = "POST"
  /\ last.sess \in Users
  /\ "title" \in last.body.keys /\ last.body.title = Some(EmptyStr)
  /\ "url" \in last.body.keys /\ last.body.url = Some("x")
  /\ last.status = 400

\* C8. Unauthorized mutations: a create or update without a session is
\* answered 401 and changes no row, whatever the body; the session check
\* comes before parsing and validation.
C8_Unauthorized ==
  [][ (last'.op \in {"POST", "PATCH"} /\ last'.sess = NoUser)
      => (last'.status = 401 /\ store' = store) ]_vars

\* A create without a session and without a title was answered 401.
C8_Witness ==
  /\ last.op = "POST"
  /\ last.sess = NoUser
  /\ "title" \notin last.body.keys
  /\ last.status = 401

C10_NotFoundIs404 ==
  ( /\ last.op = "PATCH"
    /\ last.sess \in Users
    /\ last.body.json
    /\ ~\E r \in store : r.id = last.id /\ r.user_id = last.sess )
  => (last.status = 404 /\ last.error = "Not Found")

\* The local record set of h is what a select as its user returns now.
UpToDate(h) == hooks[h].bookmarks = SelectAll(hooks[h].user)

\* seen is the number of writes the store had taken when the local record
\* set was read, best the largest seen so far: a local set read at the
\* current store version equals the current rows.
SeenMeansRead ==
  \A h \in Hooks :
    /\ hooks[h].seen <= hooks[h].best
    /\ (hooks[h].mounted /\ hooks[h].seen = writes /\ ~hooks[h].loading) => UpToDate(h)

UnderDashboard(p) ==
  Len(p) >= 2 /\ p[1] = "/" /\ p[2] = "dashboard" /\ (Len(p) > 2 => p[3] = "/")

C6_CookieDualWrite ==
  (gate.pc = "done" /\ gate.kind = "next") =>
    \A n \in DOMAIN gate.written :
      /\ JarGet(gate.request, n) = Some(gate.written[n])
      /\ JarGet(gate.response, n) = Some(gate.written[n])

\* C11. Every bookmark record in the store has a non-empty title and a
\* non-empty url, whatever create and partial-update requests were made.
C11_RequiredNonEmpty ==
  \A r \in store : r.title # EmptyStr /\ r.url # EmptyStr

\* The rows of S with the id of r.
SameId(S, r) == {q \in S : q.id = r.id}

\* C12. id, user_id and created_at of a record never change after its
\* creation and never come from the request body: a row that stays keeps
\* them, and a new row has the id and instant the database handed out and
\* the caller's session as owner.
C12_ServerFieldsImmutable ==
  [][ \A r \in store' :
        IF SameId(store, r) # {}
        THEN \A q \in SameId(store, r) :
               r.user_id = q.user_id /\ r.created_at = q.created_at
        ELSE /\ r.id = nextId /\ r.created_at = nextId
             /\ r.user_id = last'.sess ]_vars

\* A partial update whose body named another owner went through on an
\* existing row.
C12_Witness ==
  /\ last.op = "PATCH" /\ last.status = 200
  /\ "user_id" \in last.body.keys
  /\ last.body.user_id # last.sess

\* C13. Gate fail-closed: when the identity provider cannot be reached or
\* the credentials are absent, a request under /dashboard is redirected to
\* /login and a request to /login passes through; no request ends in an error.
C13_FailClosed ==
  (gate.pc = "done" /\ (~gate.idp \/ ~gate.env)) =>
    /\ gate.kind # "error"
    /\ UnderDashboard(gate.path) =>
         gate.kind = "redirect" /\ gate.location = LoginPath
    /\ gate.path = LoginPath => gate.kind = "next"

\* C14. No redirect loop: with the session unchanged, the request a
\* browser makes after following one redirect of the gate passes through.
C14_NoRedirectLoop ==
  (gate.pc = "done" /\ gate.hops >= 1) => gate.kind = "next"

\* A redirect was followed and the second request passed through.
C14_Witness ==
  /\ gate.pc = "done" /\ gate.hops = 1 /\ gate.kind = "next"
  /\ gate.path = LoginPath /\ gate.sess = NoUser

\* The fetch the effect started on mount is still in flight.
FirstPending(h) ==
  \E i \in 1..Len(hooks[h].fetches) : hooks[h].fetches[i].first

\* C15. Hook loading flag: loading is true from activation until the
\* fetch made on activation settles.
C15_LoadingUntilFirstFetch ==
  \A h \in Hooks : (hooks[h].mounted /\ FirstPending(h)) => hooks[h].loading

\* C15, with "the first fetch" read as the first fetch to settle: loading
\* is true on activation, turns false in the step in which a fetch of the
\* hook settles (successful or failed), and changes in no other step, so no
\* refetch or notification sets it back to true.
C15_LoadingUntilAnyFetchSettles ==
  [][ \A h \in Hooks :
        /\ (~hooks[h].mounted /\ hooks'[h].mounted) => hooks'[h].loading
        /\ (hooks[h].mounted /\ hooks'[h].mounted) =>
             IF Len(hooks'[h].fetches) < Len(hooks[h].fetches)
             THEN ~hooks'[h].loading
             ELSE hooks'[h].loading = hooks[h].loading ]_vars

\* Loading is over and a refetch is in flight.
C15_Witness ==
  \E h \in Hooks :
    /\ hooks[h].mounted /\ ~hooks[h].loading
    /\ hooks[h].fetches # <<>> /\ ~FirstPending(h)

\* The step settles a failed fetch of h.
FailedSettle(h) ==
  /\ hooks[h].mounted /\ hooks'[h].mounted
  /\ \E i \in 1..Len(hooks[h].fetches) :
       /\ hooks[h].fetches[i].phase = "err"
       /\ hooks'[h].fetches = RemoveAt(hooks[h].fetches, i)

\* C16. Failed fetch keeps stale data: when a fetch fails the local record
\* set stays as it was, loading is false, and no fetch or notification is
\* added (no retry).
C16_FailedFetchKeepsData ==
  [][ \A h \in Hooks :
        FailedSettle(h) =>
          /\ hooks'[h].bookmarks = hooks[h].bookmarks
          /\ ~hooks'[h].loading
          /\ hooks'[h].notes = hooks[h].notes
          /\ Len(hooks'[h].fetches) = Len(hooks[h].fetches) - 1 ]_vars

\* Records are shown, and a fetch started after they were read has failed.
C16_Witness ==
  \E h \in Hooks :
    /\ hooks[h].mounted /\ ~hooks[h].loading
    /\ hooks[h].bookmarks # <<>>
    /\ hooks[h].fetches = <<>>
    /\ hooks[h].failed > hooks[h].seen

C18_SubscriptionLifecycle ==
  \A h \in Hooks :
    /\ hooks[h].mounted => hooks[h].subs = 1
    /\ ~hooks[h].mounted =>
         /\ hooks[h].subs = 0 /\ ~hooks[h].joined
         /\ hooks[h].notes = 0 /\ hooks[h].fetches = <<>>

\* The store was written after the hook had been deactivated.
C18_Witness ==
  \E h \in Hooks :
    ~hooks[h].mounted /\ hooks[h].closed /\ writes > hooks[h].closedAt

\* The search text occurs in the text t, capitals and small letters taken
\* as the same.
Occurs(searchQuery, t) ==
  \E k \in 0..(Len(t) - Len(searchQuery)) :
    \A i \in 1..Len(searchQuery) : Letter(t[k + i]) = Letter(searchQuery[i])

\* The record belongs to the view by the rule of the claim.
Wanted(r) ==
  /\ \/ view.searchQuery = <<>>
     \/ Occurs(view.searchQuery, r.title)
     \/ Occurs(view.searchQuery, r.url)
     \/ \E d \in r.description : Occurs(view.searchQuery, d)
     \/ \E tags \in r.tags : \E i \in 1..Len(tags) : Occurs(view.searchQuery, tags[i])
  /\ ~view.showFavoritesOnly \/ r.is_favorite

\* C19. View membership: the view holds exactly the records of the full
\* set that match the search text (if any) and the favorites filter (if
\* on), each once.
C19_ViewMembership ==
  /\ \A r \in Range(view.bookmarks) : r \in Range(view.shown) <=> Wanted(r)
  /\ Range(view.shown) \subseteq Range(view.bookmarks)
  /\ \A i, j \in 1..Len(view.shown) : i # j => view.shown[i] # view.shown[j]

\* A search in capitals found a record by a tag only and dropped another.
C19_Witness ==
  /\ view.searchQuery = <<"A", "b">>
  /\ \E r \in Range(view.shown) :
       /\ ~Occurs(view.searchQuery, r.title)
       /\ ~Occurs(view.searchQuery, r.url)
       /\ r.description = Null
  /\ Len(view.shown) < Len(view.bookmarks)

\* a may stand before b in a list sorted by the key.
InOrder(a, b, sortBy) ==
  CASE sortBy = "newest" -> NotAfter(b.created_at, a.created_at)
    [] sortBy = "oldest" -> NotAfter(a.created_at, b.created_at)
    [] sortBy = "title" -> LocaleCompare(a.title, b.title) <= 0
    [] sortBy = "title-desc" -> LocaleCompare(a.title, b.title) >= 0

\* C20. View ordering: the view is a permutation of the filtered records,
\* ordered by the sort key: created_at descending for 'newest', created_at
\* ascending for 'oldest', title ascending for 'title', title descending
\* for 'title-desc'.
C20_ViewOrdering ==
  /\ Range(view.shown) =
       Range(Filtered(view.bookmarks, view.searchQuery, view.showFavoritesOnly))
  /\ Len(view.shown) =
       Len(Filtered(view.bookmarks, view.searchQuery, view.showFavoritesOnly))
  /\ \A i, j \in 1..Len(view.shown) :
       i < j => InOrder(view.shown[i], view.shown[j], view.sortBy)

C23_UpdateOwnerFilter ==
  [][ (last = Idle /\ last'.op = "PATCH") =>
        /\ \A r \in store : r.user_id # last'.sess => r \in store'
        /\ (~ \E r \in store : r.id = last'.id /\ r.user_id = last'.sess) =>
             (store' = store /\ last'.status # 200) ]_vars

\* With the policies off, a well-formed update by a signed-in user aimed at
\* a record of another owner has been refused.
C23_Witness ==
  /\ ~rls
  /\ last.op = "PATCH"
  /\ last.sess \in Users
  /\ last.body.json /\ UpdateKeys(last.body) # {}
  /\ ~UpdateViolatesNotNull(last.body)
  /\ \E r \in store : r.id = last.id /\ r.user_id # last.sess
  /\ last.status = GenericFailure

\* C24. Delete relies only on access control: a delete that the store ran
\* removes the rows with that id that the policy lets the caller touch: with
\* the policy in force only the caller's own, with the policy absent the
\* record whoever owns it.
C24_DeleteIdOnly ==
  [][ (last = Idle /\ last'.op = "DELETE" /\ last'.status = 200) =>
        /\ store' \subseteq store
        /\ store \ store' =
             {r \in store : r.id = last'.id /\ (rls => r.user_id = last'.sess)}
      ]_vars

\* With the policies off, a delete has removed a record of another owner.
C24_Witness ==
  /\ ~rls
  /\ last.op = "DELETE"
  /\ last.status = 200
  /\ \E r \in last.data : r.id = last.id /\ r.user_id # last.sess
  /\ \A r \in store : r.id # last.id

\* C25. Overlapping fetches: while the hook is mounted, starting a fetch
\* leaves the fetches in flight as they are, a fetch leaves the set of
\* fetches in flight only by settling, and a fetch that settles with data
\* replaces the local record set by its data, whatever was there.
C25_OverlappingFetches ==
  [][ \A h \in Hooks :
        (hooks[h].mounted /\ hooks'[h].mounted) =>
          LET was == hooks[h].fetches
              now == hooks'[h].fetches
          IN  \/ /\ Len(now) = Len(was) + 1
                 /\ SubSeq(now, 1, Len(was)) = was
              \/ /\ Len(now) = Len(was)
                 /\ \A i \in 1..Len(was) :
                      \/ now[i] = was[i]
                      \/ was[i].phase = "sent" /\ now[i].phase # "sent"
              \/ \E i \in 1..Len(was) :
                   /\ was[i].phase # "sent"
                   /\ now = RemoveAt(was, i)
                   /\ was[i].phase = "ok" =>
                        /\ hooks'[h].bookmarks = was[i].data
                        /\ hooks'[h].seen = was[i].ver ]_vars

\* Stale over fresh: no fetch is in flight, the local record set is a
\* snapshot older than one it has held, and differs from the store, which
\* has not changed since that newer snapshot.
C25_Witness ==
  \E h \in Hooks :
    /\ hooks[h].mounted
    /\ hooks[h].fetches = <<>> /\ hooks[h].notes = 0
    /\ hooks[h].seen < hooks[h].best
    /\ hooks[h].best = writes
    /\ hooks[h].bookmarks # SelectAll(hooks[h].user)

\* C26. Read-your-writes on the request jar: at every point of a gate
\* request, get(name) on the request's cookies returns, for a name that was
\* set or removed during the request, the value of the last set, or the
\* empty string if a remove came last, and for any other name what the
\* browser sent.
C26_ReadYourWrites ==
  gate.pc \in {"getUser", "done"} =>
    \A n \in CookieNames :
      JarGet(gate.request, n) =
        IF n \in DOMAIN gate.written THEN Some(gate.written[n])
        ELSE JarGet(gate.browser, n)

\* During getUser, a cookie the browser sent has been removed and another
\* has been set.
C26_Witness ==
  /\ gate.pc = "getUser"
  /\ gate.ops = 2
  /\ \E n, m \in DOMAIN gate.written :
       /\ n # m
       /\ n \in DOMAIN gate.browser /\ gate.browser[n] # Removed
       /\ gate.written[n] = Removed
       /\ gate.written[m] \in CookieValues

\* C27. A gate request that ends with a redirect returns a response with
\* none of the cookies written during the request; one that passes through
\* after cookie writes returns a response that carries cookies.
C27_RedirectDropsCookies ==
  gate.pc = "done" =>
    /\ gate.kind = "redirect" => gate.response = NoCookies
    /\ (gate.kind = "next" /\ gate.ops > 0) =>
         /\ gate.response # NoCookies
         /\ \A n \in DOMAIN gate.response :
              gate.response[n] = gate.written[n]

\* A request that set a session token during getUser has been redirected.
C27_Witness ==
  /\ gate.pc = "done"
  /\ gate.kind = "redirect"
  /\ \E n \in DOMAIN gate.written : gate.written[n] \in CookieValues

\* C28. A favorite toggle writes the negation of is_favorite as the
\* toggling browser's list shows it: after a toggle that went through, the
\* stored value is the negation of the value that browser showed, whatever
\* the store held; a toggle of a browser that showed f stores not-f.
C28_ToggleNegatesLocal ==
  [][ /\ \A h \in Hooks, k \in Ids :
           (HookToggle(h, k) /\ writes' = writes + 1) =>
             \E r \in store' :
               /\ r.id = hooks[h].bookmarks[k].id
               /\ r.is_favorite = ~hooks[h].bookmarks[k].is_favorite
      /\ \A u \in Users, id \in Ids, v \in BOOLEAN :
           (OtherToggle(u, id, v) /\ writes' = writes + 1) =>
             \E r \in store' : r.id = id /\ r.is_favorite = v ]_vars

\* Two browsers that showed the bookmark unstarred have each toggled it
\* once: the followed one, which has never been told of a change, still
\* shows it unstarred with the refetch of its toggle in flight, and the
\* store holds it starred after two writes that changed nothing else.
C28_Witness ==
  \E h \in Hooks :
    /\ hooks[h].mounted /\ ~hooks[h].joined
    /\ hooks[h].bookmarks = <<SeedRow>>
    /\ \E i \in DOMAIN hooks[h].fetches : ~hooks[h].fetches[i].first
    /\ writes = 2
    /\ store = {[SeedRow EXCEPT !.is_favorite = TRUE]}

\* C29. The edit modal's form state is taken from the bookmark when its
\* item first appears and a later fetch does not change it; a save after
\* the user changed the description writes title and url as captured, so
\* it can put back a title that another session has replaced.
C29_EditFormCapturedOnce ==
  [][ /\ \A h \in Hooks, i \in 1..MaxInflight :
           Settle(h, i) =>
             \A id \in DOMAIN hooks[h].forms \cap DOMAIN hooks'[h].forms :
               hooks'[h].forms[id] = hooks[h].forms[id]
      /\ \A h \in Hooks, k \in Ids, d \in Descriptions :
           (HookEdit(h, k, d) /\ writes' = writes + 1) =>
             LET id == hooks[h].bookmarks[k].id
             IN  \E r \in store' :
                   /\ r.id = id
                   /\ r.title = hooks[h].forms[id].title
                   /\ r.url = hooks[h].forms[id].url
                   /\ r.description = Some(d) ]_vars

\* The followed browser shows the title another session gave the bookmark,
\* and its save of a new description has put the title back to the one its
\* form had captured.
C29_Witness ==
  \E h \in Hooks :
    /\ hooks[h].mounted
    /\ Len(hooks[h].bookmarks) = 1
    /\ hooks[h].bookmarks[1].id = 1
    /\ hooks[h].bookmarks[1].title = "B"
    /\ hooks[h].forms[1].title = "A"
    /\ hooks[h].forms[1].description = "d"
    /\ writes = 2
    /\ store = {[SeedRow EXCEPT !.description = Some("d")]}

====
